---- MODULE Spec2Model ----
(***************************************************************************)
(* Model of erpnext_taxjar/api.py: the state normaliser validate_state,    *)
(* the request builder get_tax_data and the document hooks set_sales_tax,  *)
(* create_transaction, validate_address and delete_transaction.            *)
(*                                                                         *)
(* Text is modelled as a sequence of one-character strings, so that        *)
(* upper(), strip(), split() and concatenation are computed, not assumed.  *)
(***************************************************************************)
EXTENDS Integers, Sequences, FiniteSets, TLC

VARIABLES vs_in, vs_out, taxes0, taxes, last

vars == <<vs_in, vs_out, taxes0, taxes, last>>

None == "None"
\* Python's None where text is expected: a sequence holding the token None,
\* which is not a character
NoText == <<None>>

----------------------------------------------------------------------------
(* Bounds of the model *)

\* longest run of whitespace put before and after a candidate state string
MaxPad == 1
\* largest amount_to_collect the remote service answers with
MaxAmount == 2

----------------------------------------------------------------------------
(* str.upper, str.lower, str.strip, str.split, str.format *)

Lowers == <<"a","b","c","d","e","f","g","h","i","j","k","l","m",
            "n","o","p","q","r","s","t","u","v","w","x","y","z">>
Uppers == <<"A","B","C","D","E","F","G","H","I","J","K","L","M",
            "N","O","P","Q","R","S","T","U","V","W","X","Y","Z">>

Whitespace == {" ", "\t"}

ToUpper == [c \in {Lowers[i] : i \in 1..Len(Lowers)} |->
              Uppers[CHOOSE i \in 1..Len(Lowers) : Lowers[i] = c]]
ToLower == [c \in {Uppers[i] : i \in 1..Len(Uppers)} |->
              Lowers[CHOOSE i \in 1..Len(Uppers) : Uppers[i] = c]]

UpperChar(c) == IF c \in DOMAIN ToUpper THEN ToUpper[c] ELSE c

LowerChar(c) == IF c \in DOMAIN ToLower THEN ToLower[c] ELSE c

upper(s) == [i \in 1..Len(s) |-> UpperChar(s[i])]

lower(s) == [i \in 1..Len(s) |-> LowerChar(s[i])]

strip(s) ==
    LET keep == {i \in 1..Len(s) : s[i] \notin Whitespace}
    IN  IF keep = {} THEN <<>>
        ELSE SubSeq(s, CHOOSE i \in keep : \A j \in keep : i <= j,
                       CHOOSE i \in keep : \A j \in keep : j <= i)

\* s.split('-'): the pieces of s between hyphens, in order
RECURSIVE split(_)
split(s) ==
    LET hy == {i \in 1..Len(s) : s[i] = "-"}
    IN  IF hy = {} THEN <<s>>
        ELSE LET h == CHOOSE i \in hy : \A j \in hy : i <= j
             IN  <<SubSeq(s, 1, h - 1)>> \o split(SubSeq(s, h + 1, Len(s)))

\* needle occurs in hay as a contiguous run
Contains(hay, needle) ==
    \E i \in 0..(Len(hay) - Len(needle)) :
        SubSeq(hay, i + 1, i + Len(needle)) = needle

\* "{} is not a valid state! Check for typos or enter the ISO code for your
\* state.".format(state): the text after the placeholder is kept as one token
error_message_normalized(state) ==
    strip(upper(state)) \o <<" is not a valid state! Check for typos or enter the ISO code for your state.">>
error_message(state) ==
    state \o <<" is not a valid state! Check for typos or enter the ISO code for your state.">>

----------------------------------------------------------------------------
(* Reference data: frappe's Country table and pycountry's subdivisions *)

\* frappe.db.get_value("Country", name, "code"): codes are stored lower-case
CountryCode ==
    [Austria |-> <<"a","t">>, Belgium |-> <<"b","e">>, Canada |-> <<"c","a">>,
     Switzerland |-> <<"c","h">>, Netherlands |-> <<"n","l">>,
     UnitedStates |-> <<"u","s">>]

Countries == DOMAIN CountryCode

Sub(code, name, type) ==
    [code |-> code, name |-> name, type |-> type,
     country_code |-> split(code)[1]]

\* pycountry.subdivisions, in the order the database iterates (by code)
Subdivisions ==
    << Sub(<<"A","T","-","1">>, <<"B","u","r","g","e","n","l","a","n","d">>,
           <<"S","t","a","t","e">>),
       Sub(<<"B","E","-","V","L","I">>, <<"L","i","m","b","u","r","g">>,
           <<"P","r","o","v","i","n","c","e">>),
       Sub(<<"C","A","-","O","N">>, <<"O","n","t","a","r","i","o">>,
           <<"P","r","o","v","i","n","c","e">>),
       Sub(<<"C","H","-","U","R">>, <<"U","r","i">>,
           <<"C","a","n","t","o","n">>),
       Sub(<<"N","L","-","L","I">>, <<"L","i","m","b","u","r","g">>,
           <<"P","r","o","v","i","n","c","e">>),
       Sub(<<"U","S","-","F","L">>, <<"F","l","o","r","i","d","a">>,
           <<"S","t","a","t","e">>),
       Sub(<<"U","S","-","T","X">>, <<"T","e","x","a","s">>,
           <<"S","t","a","t","e">>) >>

SubIdx == 1..Len(Subdivisions)

\* the short code of a subdivision: its code without the country prefix
ShortCode(e) == split(e.code)[2]

\* pycountry.subdivisions.get(country_code=cc): the subdivisions of a country
subdivisions_get(cc) ==
    {Subdivisions[i] : i \in {j \in SubIdx : lower(Subdivisions[j].country_code) = lower(cc)}}

\* pycountry.subdivisions.lookup(value): the whole database is searched, first
\* the code index, then name and type of every record in order; no country is
\* given.  The result is <<record>>, or <<>> for LookupError.
subdivisions_lookup(value) ==
    LET v      == lower(value)
        byCode == {i \in SubIdx : lower(Subdivisions[i].code) = v}
        byText == {i \in SubIdx : \/ lower(Subdivisions[i].name) = v
                                  \/ lower(Subdivisions[i].type) = v}
        first(S) == CHOOSE i \in S : \A j \in S : i <= j
    IN  IF byCode # {} THEN <<Subdivisions[first(byCode)]>>
        ELSE IF byText # {} THEN <<Subdivisions[first(byText)]>>
        ELSE <<>>

----------------------------------------------------------------------------
(* validate_state *)

Return(v) == [kind |-> "return", value |-> v, message |-> NoText]
Throw(m)  == [kind |-> "throw", value |-> NoText, message |-> m]

\* the length up to which a state string is taken to be an ISO code
MaxCodeLen == 3

\* len(state) <= 3
is_code_length_lt(state) == Len(state) < MaxCodeLen
is_code_length(state) == Len(state) <= MaxCodeLen

\* lookup_state.code.split('-')[1]
code_country_part(lookup_state) == split(lookup_state.code)[1]
code_state_part(lookup_state) == split(lookup_state.code)[2]

\* lines 245-254: the state is taken to be a code of the country
validate_code(country_code, state, message) ==
    LET address_state == upper(country_code \o <<"-">> \o state)
        states == {s.code : s \in subdivisions_get(upper(country_code))}
    IN  IF address_state \in states THEN Return(state) ELSE Throw(message)

\* lines 256-261: the state is looked up in the whole database
validate_lookup(lookup_state, message) ==
    IF lookup_state = <<>> THEN Throw(message)
    ELSE Return(code_state_part(lookup_state[1]))

\* lines 245-261, on the upper-cased and stripped state
validate_stripped(country_code, state, message) ==
    IF is_code_length(state)
    THEN validate_code(country_code, state, message)
    ELSE validate_lookup(subdivisions_lookup(state), message)

validate_state(address) ==
    validate_stripped(CountryCode[address.country],
                      strip(upper(address.state)),
                      error_message(address.state))

----------------------------------------------------------------------------
(* Candidate state strings *)

Junk ==
    { <<>>, <<"Z","Z">>, <<"A","E">>, <<"Z","z","y","z","x">>,
      <<"U","S","-","Z","Z">>, <<"O","N","T">> }

Vocabulary ==
    UNION { {Subdivisions[i].name, Subdivisions[i].code, Subdivisions[i].type,
             ShortCode(Subdivisions[i])} : i \in SubIdx } \cup Junk

Cased == Vocabulary \cup {upper(w) : w \in Vocabulary} \cup {lower(w) : w \in Vocabulary}

RECURSIVE Pads(_)
Pads(n) ==
    IF n = 0 THEN {<<>>}
    ELSE Pads(n - 1) \cup {<<c>> \o p : c \in Whitespace, p \in {q \in Pads(n - 1) : Len(q) = n - 1}}

StateStrings == {l \o w \o r : l \in Pads(MaxPad), w \in Cased, r \in Pads(MaxPad)}

Pending == [kind |-> "pending", value |-> NoText, message |-> NoText]

----------------------------------------------------------------------------
(* The normaliser on its own: an address is drawn, validate_state is applied *)

InitNormalizer ==
    /\ vs_in \in [country : Countries, state : StateStrings]
    /\ vs_out = Pending
    /\ taxes0 = <<>>
    /\ taxes = <<>>
    /\ last = <<>>

ApplyValidateState ==
    /\ vs_out = Pending
    /\ vs_out' = validate_state(vs_in)
    /\ UNCHANGED <<vs_in, taxes0, taxes, last>>

NextNormalizer == ApplyValidateState

SpecNormalizer == InitNormalizer /\ [][NextNormalizer]_vars

----------------------------------------------------------------------------
(* Properties of validate_state *)

Done == vs_out.kind # "pending"

AllSubdivisions == {Subdivisions[i] : i \in SubIdx}

\* the reference entries of the country an address names
OfCountry(country) ==
    {e \in AllSubdivisions : lower(e.country_code) = lower(CountryCode[country])}

SameText(a, b) == lower(a) = lower(b)

\* s, trimmed and ignoring case, is the name, the short code or the full code of e
Designates(s, e) ==
    \/ SameText(strip(s), e.name)
    \/ SameText(strip(s), ShortCode(e))
    \/ SameText(strip(s), e.code)

\* C1: validate_state returns only the short code of a subdivision of the
\* address's country that the state string names; anything else is refused.
C1_OnlySubdivisionOfCountry ==
    vs_out.kind = "return" =>
        \E e \in OfCountry(vs_in.country) :
            /\ vs_out.value = ShortCode(e)
            /\ Designates(vs_in.state, e)

\* C2: the name of a subdivision of the country, in any letter case and with
\* surrounding whitespace, gives that subdivision's short code, whatever the
\* length of the name.
C2_NameGivesShortCode ==
    \A e \in OfCountry(vs_in.country) :
        (Done /\ SameText(strip(vs_in.state), e.name)) => vs_out = Return(ShortCode(e))

\* C3: a short code of the country is returned unchanged, whatever its length.
C3_ShortCodeUnchanged ==
    \A e \in OfCountry(vs_in.country) :
        (Done /\ vs_in.state = ShortCode(e)) => vs_out = Return(vs_in.state)

C3_Witness ==
    /\ vs_out.kind = "return"
    /\ Len(vs_in.state) = MaxCodeLen
    /\ \E e \in OfCountry(vs_in.country) : vs_in.state = ShortCode(e)

\* C4: the full ISO form "c-k" of a subdivision of country c gives k.
C4_FullCodeGivesShortCode ==
    \A e \in OfCountry(vs_in.country) :
        (Done /\ vs_in.state = upper(CountryCode[vs_in.country]) \o <<"-">> \o ShortCode(e))
            => vs_out = Return(ShortCode(e))

C4_Witness ==
    /\ vs_out.kind = "return"
    /\ \E e \in OfCountry(vs_in.country) :
          /\ vs_in.state = e.code
          /\ vs_out.value = ShortCode(e)
          /\ Len(vs_in.state) > Len(vs_out.value)

\* s matches no record of the reference data on any field
Unresolvable(s) ==
    \A e \in AllSubdivisions : ~Designates(s, e) /\ ~SameText(strip(s), e.type)

IsValidationError(message) ==
    /\ message # NoText
    /\ message[Len(message)] = error_message(<<>>)[1]

C5_WitnessShort ==
    /\ vs_out.kind = "throw"
    /\ Unresolvable(vs_in.state)
    /\ is_code_length(strip(vs_in.state))

----------------------------------------------------------------------------
(* Documents, addresses and the remote service *)

TAX_ACCOUNT_HEAD == "Sales Tax - C"
SHIP_ACCOUNT_HEAD == "Shipping - C"
OTHER_ACCOUNT_HEAD == "VAT - C"

Row(head, amount) == [account_head |-> head, tax_amount |-> amount]

Addr(country, state) == [country |-> country, state |-> state]

FL == <<"F","L">>
TX == <<"T","X">>
AE == <<"A","E">>
Florida == <<"F","l","o","r","i","d","a">>
Zzyzx == <<"Z","z","y","z","x">>

\* company addresses and named shipping addresses on file
ShipAddresses ==
    { Addr("UnitedStates", st) : st \in {NoText, <<>>, FL, Florida, AE, Zzyzx} }
    \cup { Addr("Canada", <<"O","N">>), Addr(None, FL) }

\* customer addresses on file
CustomerAddresses ==
    { Addr("UnitedStates", st) :
        st \in {NoText, <<>>, TX, <<"T","e","x","a","s">>, AE, lower(AE),
                <<" ">> \o AE \o <<" ">>, Zzyzx} }
    \cup { Addr("Canada", <<"O","n","t","a","r","i","o">>), Addr(None, TX) }

\* what get_shipping_address reads: the company address (<<>> when none is
\* set up) and the address doc.shipping_address_name names (<<>> when empty)
ShipChoices ==
    { [company_address |-> <<>>, shipping_address_name |-> <<>>] }
    \cup { [company_address |-> <<a>>, shipping_address_name |-> <<>>] : a \in ShipAddresses }
    \cup { [company_address |-> <<Addr("UnitedStates", FL)>>, shipping_address_name |-> <<a>>] :
             a \in {Addr("UnitedStates", Florida), Addr("Canada", <<"O","N">>)} }

\* the remote service: an answer with amount_to_collect, a TaxJarResponseError,
\* any other exception, or no API key in TaxJar Settings
Remotes ==
    { [kind |-> "ok", amount_to_collect |-> a] : a \in 0..MaxAmount }
    \cup { [kind |-> k, amount_to_collect |-> 0] : k \in {"response_error", "other_error", "no_api_key"} }

\* the tax lines a document is created with
InitTaxes ==
    { <<>>,
      <<Row(SHIP_ACCOUNT_HEAD, 1)>>,
      <<Row(OTHER_ACCOUNT_HEAD, 1), Row(SHIP_ACCOUNT_HEAD, MaxAmount)>>,
      <<Row(SHIP_ACCOUNT_HEAD, 1), Row(SHIP_ACCOUNT_HEAD, 1)>>,
      <<Row(TAX_ACCOUNT_HEAD, 1)>>,
      <<Row(TAX_ACCOUNT_HEAD, 0), Row(OTHER_ACCOUNT_HEAD, 1)>>,
      <<Row(TAX_ACCOUNT_HEAD, 1), Row(SHIP_ACCOUNT_HEAD, 1), Row(TAX_ACCOUNT_HEAD, 0)>>,
      <<Row(TAX_ACCOUNT_HEAD, 0), Row(TAX_ACCOUNT_HEAD, MaxAmount)>> }

----------------------------------------------------------------------------
(* get_shipping_address, get_tax_data *)

get_shipping_address(doc) ==
    IF doc.company_address = <<>>
    THEN [kind |-> "throw", address |-> <<>>]
    ELSE IF doc.shipping_address_name # <<>>
         THEN [kind |-> "return", address |-> doc.shipping_address_name]
         ELSE [kind |-> "return", address |-> doc.company_address]

\* the sum of tax_amount over the rows of one account head
RECURSIVE head_total(_, _)
head_total(rows, head) ==
    IF rows = <<>> THEN 0
    ELSE (IF rows[1].account_head = head THEN rows[1].tax_amount ELSE 0)
         + head_total(Tail(rows), head)

Military == {<<"A","E">>, <<"A","A">>, <<"A","P">>}

\* customer_state.upper() in ("AE", "AA", "AP")
is_military(customer_state) == upper(customer_state) \in Military

\* a call of validate_state made by get_tax_data
Call(about, address) == <<[about |-> about, address |-> address]>>

\* the result of get_tax_data: a request (tax_dict), nothing, or an error;
\* with the addresses it fetched and the calls of validate_state it made
Gtd(kind, error, about, message, cust, ship, calls, dict) ==
    [kind |-> kind, error |-> error, about |-> about, message |-> message,
     customer_address |-> cust, shipping_address |-> ship,
     vs_calls |-> calls, tax_dict |-> dict]

\* lines 128-142: the request
tax_dict_of(to_country_code, customer_state, from_country_code, shipping_state, shipping) ==
    [to_country |-> to_country_code, to_state |-> customer_state,
     from_country |-> from_country_code, from_state |-> shipping_state,
     shipping |-> shipping]

\* lines 126-142: the customer's state has been given to validate_state
tax_data_validated(cust, ship, calls, cust_result, shipping) ==
    IF cust_result.kind = "throw"
    THEN Gtd("throw", "invalid state", "customer", cust_result.message,
             cust, ship, calls, <<>>)
    ELSE Gtd("request", "", "", NoText, cust, ship, calls,
             <<tax_dict_of(upper(CountryCode[cust[1].country]), cust_result.value,
                           upper(CountryCode[ship[1].country]),
                           \* line 116 reads the address again, over the value
                           \* line 114 assigned
                           ship[1].state, shipping)>>)

\* lines 116-142: the customer's state
tax_data_customer(cust, ship, ship_calls, shipping) ==
    IF cust[1].state = NoText
    THEN Gtd("request", "", "", NoText, cust, ship, ship_calls,
             <<tax_dict_of(upper(CountryCode[cust[1].country]), NoText,
                           upper(CountryCode[ship[1].country]),
                           ship[1].state, shipping)>>)
    ELSE IF is_military(cust[1].state)
    THEN Gtd("throw", "military address", "customer", NoText, cust, ship, ship_calls, <<>>)
    ELSE tax_data_validated(cust, ship, ship_calls \o Call("customer", cust[1]),
                            validate_state(cust[1]), shipping)

\* lines 111-114: the shipping state has been given to validate_state
tax_data_shipping(cust, ship, ship_result, shipping) ==
    IF ship_result.kind = "throw"
    THEN Gtd("throw", "invalid state", "shipping", ship_result.message,
             cust, ship, Call("shipping", ship[1]), <<>>)
    ELSE tax_data_customer(cust, ship, Call("shipping", ship[1]), shipping)

\* lines 91-126: the countries, the shipping charge and the shipping state
tax_data_addresses(cust, ship, rows) ==
    IF ship[1].country = None
    THEN Gtd("throw", "country required", "shipping", NoText, cust, ship, <<>>, <<>>)
    ELSE IF upper(CountryCode[ship[1].country]) # <<"U","S">>
    THEN Gtd("none", "", "", NoText, cust, ship, <<>>, <<>>)
    ELSE IF cust[1].country = None
    THEN Gtd("throw", "country required", "customer", NoText, cust, ship, <<>>, <<>>)
    ELSE IF ship[1].state = NoText
    THEN tax_data_customer(cust, ship, <<>>, head_total(rows, SHIP_ACCOUNT_HEAD))
    ELSE tax_data_shipping(cust, ship, validate_state(ship[1]),
                           head_total(rows, SHIP_ACCOUNT_HEAD))

\* lines 89-90: the shipping address has been asked for
tax_data_shipped(cust, got, rows) ==
    IF got.kind = "throw"
    THEN Gtd("throw", "no company address", "company", NoText, cust, <<>>, <<>>, <<>>)
    ELSE tax_data_addresses(cust, got.address, rows)

get_tax_data(doc) ==
    IF doc.customer_address = <<>>
    THEN Gtd("none", "", "", NoText, <<>>, <<>>, <<>>, <<>>)
    ELSE tax_data_shipped(doc.customer_address, get_shipping_address(doc), doc.taxes)

----------------------------------------------------------------------------
(* get_client, validate_tax_request *)

\* get_client then client.tax_for_order(tax_dict)
validate_tax_request(remote) ==
    IF remote.kind = "no_api_key"
    THEN [kind |-> "throw", error |-> "no api key", client |-> FALSE, amount_to_collect |-> 0]
    ELSE IF remote.kind = "response_error"
    THEN [kind |-> "throw", error |-> "remote response", client |-> TRUE, amount_to_collect |-> 0]
    ELSE IF remote.kind = "other_error"
    THEN [kind |-> "throw", error |-> "remote failure", client |-> TRUE, amount_to_collect |-> 0]
    ELSE [kind |-> "return", error |-> "", client |-> TRUE,
          amount_to_collect |-> remote.amount_to_collect]

----------------------------------------------------------------------------
(* What a hook call did: the observation kept until the request ends *)

Obs(op, rows) ==
    [op |-> op, before |-> rows, kind |-> "return", error |-> "", items |-> TRUE, calc |-> TRUE,
     exempt |-> FALSE, flag |-> TRUE, sales_tax |-> 0, gtd |-> <<>>, remote |-> <<>>,
     client |-> FALSE, orders |-> 0, recalculated |-> FALSE]

GtdInputs ==
    { [customer_address |-> c, company_address |-> s.company_address,
       shipping_address_name |-> s.shipping_address_name] :
        c \in {<<>>} \cup {<<a>> : a \in CustomerAddresses}, s \in ShipChoices }

DocView(in, rows) ==
    [customer_address |-> in.customer_address, company_address |-> in.company_address,
     shipping_address_name |-> in.shipping_address_name, taxes |-> rows]

----------------------------------------------------------------------------
(* set_sales_tax *)

SalesTaxRows(rows) == {i \in 1..Len(rows) : rows[i].account_head = TAX_ACCOUNT_HEAD}

FirstOf(S) == CHOOSE i \in S : \A j \in S : i <= j
LastOf(S) == CHOOSE i \in S : \A j \in S : j <= i

\* lines 175-178: the first sales-tax row is set to 0
zero_sales_tax(rows) ==
    IF SalesTaxRows(rows) = {} THEN rows
    ELSE [rows EXCEPT ![FirstOf(SalesTaxRows(rows))].tax_amount = 0]

\* lines 187, 196: every sales-tax row is dropped
without_sales_tax(rows) ==
    SelectSeq(rows, LAMBDA tax : tax.account_head # TAX_ACCOUNT_HEAD)

\* lines 200-213: the first sales-tax row takes the amount; a row is appended
\* when there is none
append_sales_tax(rows, amount) == Append(rows, Row(TAX_ACCOUNT_HEAD, amount))
with_sales_tax(rows, amount) ==
    IF SalesTaxRows(rows) = {} THEN Append(rows, Row(TAX_ACCOUNT_HEAD, amount))
    ELSE [rows EXCEPT ![FirstOf(SalesTaxRows(rows))].tax_amount = amount]

\* line 174: doc.get("exempt_from_sales_tax") == 1 or customer_exempt
is_exempt(in) == in.doc_exempt \/ in.customer_exempt

SalesTaxInputs ==
    { [items |-> i, calc |-> k, doc_exempt |-> de, customer_exempt |-> ce,
       customer_address |-> g.customer_address, company_address |-> g.company_address,
       shipping_address_name |-> g.shipping_address_name, remote |-> r] :
        i \in BOOLEAN, k \in BOOLEAN, de \in BOOLEAN, ce \in BOOLEAN,
        g \in GtdInputs, r \in Remotes }

\* lines 190-215: the remote service has been asked
sales_tax_answered(rows, o, t) ==
    IF t.kind = "throw"
    THEN [taxes |-> rows, obs |-> [o EXCEPT !.kind = "throw", !.error = t.error]]
    ELSE IF t.amount_to_collect = 0
    THEN [taxes |-> without_sales_tax(rows), obs |-> o]
    ELSE IF t.amount_to_collect > 0
    THEN [taxes |-> with_sales_tax(rows, t.amount_to_collect),
          obs |-> [o EXCEPT !.recalculated = TRUE]]
    ELSE [taxes |-> rows, obs |-> o]

\* lines 183-215: get_tax_data has answered
sales_tax_requested(rows, o, g, remote) ==
    IF g.kind = "throw"
    THEN [taxes |-> rows, obs |-> [o EXCEPT !.gtd = <<g>>, !.kind = "throw", !.error = g.error]]
    ELSE IF g.kind = "none"
    THEN [taxes |-> without_sales_tax(rows), obs |-> [o EXCEPT !.gtd = <<g>>]]
    ELSE sales_tax_answered(rows,
            [o EXCEPT !.gtd = <<g>>, !.remote = <<remote>>,
                      !.client = remote.kind # "no_api_key"],
            validate_tax_request(remote))

\* lines 163-181: the early returns and the exempt document
sales_tax_checked(rows, in, o) ==
    IF ~in.items THEN [taxes |-> rows, obs |-> o]
    ELSE IF ~in.calc THEN [taxes |-> rows, obs |-> [o EXCEPT !.calc = FALSE]]
    ELSE IF is_exempt(in)
    THEN [taxes |-> zero_sales_tax(rows), obs |-> [o EXCEPT !.recalculated = TRUE]]
    ELSE sales_tax_requested(rows, o, get_tax_data(DocView(in, rows)), in.remote)

set_sales_tax(rows, in) ==
    sales_tax_checked(rows, in,
        [Obs("set_sales_tax", rows) EXCEPT !.items = in.items, !.exempt = is_exempt(in)])

----------------------------------------------------------------------------
(* create_transaction, validate_address, delete_transaction *)

\* line 19: frappe.local.conf.get("taxjar_create_transactions", 0)
transactions_always(in) == TRUE
transactions_enabled(in) == in.flag

\* lines 22-26: the amount of the last sales-tax row, 0 when there is none
sales_tax_of(rows) ==
    IF SalesTaxRows(rows) = {} THEN 0
    ELSE rows[LastOf(SalesTaxRows(rows))].tax_amount

TransactionInputs ==
    { [flag |-> f, customer_address |-> g.customer_address,
       company_address |-> g.company_address,
       shipping_address_name |-> g.shipping_address_name, remote |-> r] :
        f \in BOOLEAN, g \in GtdInputs, r \in Remotes }

\* lines 42-49: get_client and client.create_order
transaction_sent(o, remote) ==
    IF remote.kind = "no_api_key"
    THEN [o EXCEPT !.remote = <<remote>>, !.kind = "throw", !.error = "no api key"]
    ELSE IF remote.kind = "response_error"
    THEN [o EXCEPT !.remote = <<remote>>, !.kind = "throw", !.error = "remote response",
                   !.client = TRUE, !.orders = 1]
    ELSE \* any other exception is printed and swallowed
         [o EXCEPT !.remote = <<remote>>, !.client = TRUE, !.orders = 1]

\* lines 31-49: get_tax_data has answered
transaction_requested(o, g, remote) ==
    IF g.kind = "throw" THEN [o EXCEPT !.gtd = <<g>>, !.kind = "throw", !.error = g.error]
    ELSE IF g.kind = "none" THEN [o EXCEPT !.gtd = <<g>>]
    ELSE transaction_sent([o EXCEPT !.gtd = <<g>>], remote)

\* lines 22-49: the sales tax of the document has been read
transaction_taxed(rows, in, o, sales_tax) ==
    IF sales_tax = 0 THEN o
    ELSE transaction_requested([o EXCEPT !.sales_tax = sales_tax],
                               get_tax_data(DocView(in, rows)), in.remote)

create_transaction(rows, in) ==
    IF ~transactions_enabled(in)
    THEN [Obs("create_transaction", rows) EXCEPT !.flag = in.flag]
    ELSE transaction_taxed(rows, in, [Obs("create_transaction", rows) EXCEPT !.flag = in.flag],
                           sales_tax_of(rows))

\* lines 222-224: get_tax_data has answered
address_requested(o, g, remote, t) ==
    IF g.kind = "throw" THEN [o EXCEPT !.gtd = <<g>>, !.kind = "throw", !.error = g.error]
    ELSE IF g.kind = "none" THEN [o EXCEPT !.gtd = <<g>>]
    ELSE IF t.kind = "throw"
    THEN [o EXCEPT !.gtd = <<g>>, !.remote = <<remote>>, !.client = t.client,
                   !.kind = "throw", !.error = t.error]
    ELSE [o EXCEPT !.gtd = <<g>>, !.remote = <<remote>>, !.client = t.client]

validate_address(rows, in) ==
    address_requested(Obs("validate_address", rows), get_tax_data(DocView(in, rows)),
                      in.remote, validate_tax_request(in.remote))

\* lines 52-54: get_client and client.delete_order
delete_transaction(rows, remote) ==
    LET o == [Obs("delete_transaction", rows) EXCEPT !.remote = <<remote>>]
    IN  IF remote.kind = "no_api_key"
        THEN [o EXCEPT !.kind = "throw", !.error = "no api key"]
        ELSE IF remote.kind = "ok"
        THEN [o EXCEPT !.client = TRUE]
        ELSE [o EXCEPT !.kind = "throw", !.error = "remote failure", !.client = TRUE]

----------------------------------------------------------------------------
(* The hooks on a document: one hook runs per request *)

Init ==
    /\ vs_in = Addr("UnitedStates", FL)
    /\ vs_out = Pending
    /\ taxes0 \in InitTaxes
    /\ taxes = taxes0
    /\ last = <<>>

SetSalesTax ==
    /\ last = <<>>
    /\ \E in \in SalesTaxInputs :
         LET r == set_sales_tax(taxes, in)
         IN  /\ taxes' = r.taxes
             /\ last' = <<r.obs>>
    /\ UNCHANGED <<vs_in, vs_out, taxes0>>

CreateTransaction ==
    /\ last = <<>>
    /\ \E in \in TransactionInputs : last' = <<create_transaction(taxes, in)>>
    /\ UNCHANGED <<vs_in, vs_out, taxes0, taxes>>

ValidateAddress ==
    /\ last = <<>>
    /\ \E g \in GtdInputs, r \in Remotes :
         last' = <<validate_address(taxes, [customer_address |-> g.customer_address,
                     company_address |-> g.company_address,
                     shipping_address_name |-> g.shipping_address_name,
                     remote |-> r])>>
    /\ UNCHANGED <<vs_in, vs_out, taxes0, taxes>>

DeleteTransaction ==
    /\ last = <<>>
    /\ \E r \in Remotes : last' = <<delete_transaction(taxes, r)>>
    /\ UNCHANGED <<vs_in, vs_out, taxes0, taxes>>

\* the request that ran the hook is over
EndRequest ==
    /\ last # <<>>
    /\ last' = <<>>
    /\ UNCHANGED <<vs_in, vs_out, taxes0, taxes>>

Next ==
    \/ SetSalesTax
    \/ CreateTransaction
    \/ ValidateAddress
    \/ DeleteTransaction
    \/ EndRequest

Spec == Init /\ [][Next]_vars

----------------------------------------------------------------------------
(* Properties of get_tax_data *)

Called == last # <<>>
TheCall == last[1]
GtdCalled == Called /\ TheCall.gtd # <<>>
TheGtd == TheCall.gtd[1]

\* the address get_tax_data fetched in a role, <<>> when it fetched none
Fetched(g, about) ==
    IF about = "shipping" THEN g.shipping_address ELSE g.customer_address

Roles == {"shipping", "customer"}

ValidatedFor(g, about) ==
    \E i \in 1..Len(g.vs_calls) : g.vs_calls[i].about = about

\* C6: a request carries, for each address with a state, the value
\* validate_state returned for that address.
C6_RequestCarriesValidatedStates ==
    (GtdCalled /\ TheGtd.kind = "request") =>
        LET ship == TheGtd.shipping_address[1]
            cust == TheGtd.customer_address[1]
            dict == TheGtd.tax_dict[1]
        IN  /\ ship.state # NoText => dict.from_state = validate_state(ship).value
            /\ cust.state # NoText => dict.to_state = validate_state(cust).value

\* state validation does not apply to the address
NotApplicable(address) ==
    \/ address.state = NoText
    \/ address.state = <<>>
    \/ address.country = None

\* C7: for an address whose state is empty or missing, or whose country is
\* missing, get_tax_data does not call validate_state and raises no error on
\* account of that address.
C7_AbsentStateIsNotValidated ==
    GtdCalled =>
        \A about \in Roles :
            (Fetched(TheGtd, about) # <<>> /\ NotApplicable(Fetched(TheGtd, about)[1])) =>
                /\ ~ValidatedFor(TheGtd, about)
                /\ ~(TheGtd.kind = "throw" /\ TheGtd.about = about)

\* a military state code, as the normaliser would read it
MilitaryText(state) == state # NoText /\ strip(upper(state)) \in Military

\* get_tax_data got as far as the state of the customer address: the
\* countries are there, the goods ship from the US, and the shipping state
\* raised no error
ReadsCustomerState(g) ==
    /\ g.shipping_address # <<>>
    /\ g.shipping_address[1].country = "UnitedStates"
    /\ g.customer_address[1].country # None
    /\ ~(g.kind = "throw" /\ g.about = "shipping")

\* C8: a customer address with a military state code, in any letter case and
\* with surrounding whitespace, makes get_tax_data fail with the
\* military-address error, and validate_state is not called with that address.
C8_MilitaryRejectedBeforeNormalizer ==
    (GtdCalled /\ ReadsCustomerState(TheGtd)
       /\ MilitaryText(TheGtd.customer_address[1].state)) =>
        /\ TheGtd.kind = "throw"
        /\ TheGtd.error = "military address"
        /\ ~ValidatedFor(TheGtd, "customer")

----------------------------------------------------------------------------
(* Properties of set_sales_tax *)

OtherRows(rows) == SelectSeq(rows, LAMBDA tax : tax.account_head # TAX_ACCOUNT_HEAD)

SetSalesTaxReturned ==
    Called /\ TheCall.op = "set_sales_tax" /\ TheCall.kind = "return"

Answered == TheCall.remote # <<>> /\ TheCall.remote[1].kind = "ok"

\* what C9 says of every state but for the exempt document
SalesTaxReflectsLastCall ==
    /\ SalesTaxRows(taxes0) = {} =>
         /\ Cardinality(SalesTaxRows(taxes)) <= 1
         /\ SetSalesTaxReturned =>
              /\ (Answered /\ TheCall.remote[1].amount_to_collect > 0) =>
                    /\ SalesTaxRows(taxes) # {}
                    /\ \A i \in SalesTaxRows(taxes) :
                          taxes[i].tax_amount = TheCall.remote[1].amount_to_collect
              /\ (\/ TheCall.gtd # <<>> /\ TheGtd.kind = "none"
                  \/ Answered /\ TheCall.remote[1].amount_to_collect = 0) =>
                    SalesTaxRows(taxes) = {}
    /\ (Called /\ TheCall.op = "set_sales_tax") => OtherRows(taxes) = OtherRows(TheCall.before)
    /\ OtherRows(taxes) = OtherRows(taxes0)

\* C9 as claimed: from a document without a sales-tax row, after set_sales_tax
\* calls that return, there is at most one sales-tax row; it holds the amount
\* of the last call if that was positive; there is none if the tax data did
\* not apply or the amount was zero; the sales tax of an exempt document or
\* customer sums to 0; rows of other account heads are untouched.
C9_AsClaimed ==
    /\ SalesTaxReflectsLastCall
    /\ (SalesTaxRows(taxes0) = {} /\ SetSalesTaxReturned /\ TheCall.exempt) =>
          head_total(taxes, TAX_ACCOUNT_HEAD) = 0

\* C9 as amended: the same, the exempt case only for a call that the empty
\* items list or the taxjar_calculate_tax setting did not end early; a call
\* ended early leaves the tax lines as they were.
C9_SalesTaxReflectsLastCall ==
    /\ SalesTaxReflectsLastCall
    /\ (SalesTaxRows(taxes0) = {} /\ SetSalesTaxReturned /\ TheCall.exempt
           /\ TheCall.items /\ TheCall.calc) =>
          head_total(taxes, TAX_ACCOUNT_HEAD) = 0
    /\ (SetSalesTaxReturned /\ ~(TheCall.items /\ TheCall.calc)) => taxes = TheCall.before

\* an exempt call on a document an earlier call had given a sales-tax row
C9_Witness ==
    /\ SalesTaxRows(taxes0) = {}
    /\ SetSalesTaxReturned
    /\ TheCall.exempt /\ TheCall.items /\ TheCall.calc
    /\ SalesTaxRows(taxes) # {}

----------------------------------------------------------------------------
(* Properties of create_transaction *)

CreateTransactionCalled == Called /\ TheCall.op = "create_transaction"

\* the setting is on, a sales-tax row has an amount, get_tax_data gave a request
MaySend ==
    /\ TheCall.flag
    /\ \E i \in SalesTaxRows(TheCall.before) : TheCall.before[i].tax_amount # 0
    /\ TheCall.gtd # <<>> /\ TheGtd.kind = "request"

SendsOnlyWhenAllowed ==
    /\ TheCall.orders <= 1
    /\ TheCall.orders = 1 => MaySend
    /\ taxes = TheCall.before

\* C10 as claimed: an order is sent at most once and only when MaySend; in
\* every other case the call returns without a client and without contacting
\* the remote service; the tax lines are never modified.
C10_AsClaimed ==
    CreateTransactionCalled =>
        /\ SendsOnlyWhenAllowed
        /\ ~MaySend => (TheCall.kind = "return" /\ ~TheCall.client /\ TheCall.orders = 0)

\* C10 as amended: in every other case the call ends, by returning or with the
\* error get_tax_data raised, without a client and without contacting the
\* remote service.
C10_SendsOnlyWhenAllowed ==
    CreateTransactionCalled =>
        /\ SendsOnlyWhenAllowed
        /\ ~MaySend =>
              /\ ~TheCall.client /\ TheCall.orders = 0
              /\ \/ TheCall.kind = "return"
                 \/ TheCall.gtd # <<>> /\ TheGtd.kind = "throw" /\ TheCall.error = TheGtd.error

C10_Witness ==
    /\ CreateTransactionCalled
    /\ TheCall.orders = 1
    /\ TheCall.kind = "return"

C10_WitnessRefused ==
    /\ CreateTransactionCalled
    /\ TheCall.flag /\ TheCall.sales_tax # 0
    /\ TheCall.gtd # <<>> /\ TheGtd.kind = "none"

====
